---- MODULE Spec2Model ----
(***************************************************************************)
(* A model of the Go package `decimal` (christopherganda/BigDecimal): an   *)
(* arbitrary-precision decimal held as an unscaled big integer and an      *)
(* int32 scale.  Text is modelled as a sequence of one-character strings,  *)
(* so that parsing and formatting are computed character by character as   *)
(* the Go code computes them.                                              *)
(***************************************************************************)
EXTENDS Integers, Sequences, FiniteSets, TLC

VARIABLES
    input,      \* text handed to the last NewFromString call
    dec,        \* the Decimal the last constructor returned
    err,        \* TRUE iff the last constructor returned a non-nil error
    out,        \* what the last String() call produced (text or a panic)
    step,       \* position of the text session: idle / parsed / made / printed
    heap,       \* the *big.Int objects allocated so far: address -> value
    a,          \* the caller's first operand: address of its unscaledValue, scale
    b,          \* the caller's second operand
    made,       \* the values the operands were constructed with
    call,       \* the last arithmetic call: operation, operand values at entry, result
    calls,      \* number of arithmetic calls made on the operands
    powersOfTen, \* the cache map: exponent -> address of the stored *big.Int
    bigs,       \* the *big.Int objects pow10 allocated: address -> decimal digits
    readers,    \* goroutines holding powersOfTenMutex for reading
    writer,     \* goroutine that has called Lock and not yet Unlock, or 0
    exclusive,  \* TRUE once that goroutine holds the mutex for writing
    pc,         \* per goroutine: its position in pow10
    arg,        \* per goroutine: the n of its pow10 call
    loc,        \* per goroutine: its local p
    ret,        \* per goroutine: the address its last pow10 call returned
    started,    \* pow10 calls the goroutines have made since init()
    initI,      \* loop variable i of init(); past LastPrecalc once init() is over
    used,       \* per goroutine: the product its caller computed from the returned power
    rcall,      \* the last call of the rounding policy or of NewFromRat, with its result
    ucall,      \* the last call of a uint64 constructor, with its result
    recv,       \* the Decimal a Scan call is made on
    scan,       \* the last Scan call: its argument, the receiver before it, its error
    rs          \* the rescale session: its heap, the receiver, the calls made and their results

textVars == <<input, dec, err, out, step>>

arithVars == <<heap, a, b, made, call, calls>>

cacheVars ==
    <<powersOfTen, bigs, readers, writer, exclusive, pc, arg, loc, ret, started, initI, used>>

convVars == <<rcall, ucall, recv, scan, rs>>

vars == <<input, dec, err, out, step, heap, a, b, made, call, calls,
          powersOfTen, bigs, readers, writer, exclusive, pc, arg, loc, ret, started, initI, used,
          rcall, ucall, recv, scan, rs>>

----------------------------------------------------------------------------
(* Bounds of the model.                                                    *)

\* longest text enumerated exhaustively as NewFromString input
MaxLen == 5
\* largest magnitude handed to New(val, scale)
MaxVal == 12
\* largest |scale| handed to New(val, scale)
MaxScale == 3
\* largest magnitude of an arithmetic operand
MaxOperand == 4
\* largest |scale| of an arithmetic operand
MaxOperandScale == 1
\* longest sequence of arithmetic calls made on one pair of operands
MaxCalls == 1
\* arithmetic calls are made while every heap value is at most this in magnitude
MaxMagnitude == 9999
\* goroutines calling pow10 concurrently once init() is over
NProcs == 2
\* pow10 calls they make between them
MaxPowCalls == 2
\* exponents past the precalculated ones that they ask for
MaxExtra == 1
\* largest unscaled value or numerator multiplied by a power that pow10 returned
MaxFactor == 2
\* largest magnitude of a dividend whose remainder is handed to shouldRoundUp
MaxDividend == 35
\* largest divisor of those divisions
MaxDivisor == 10
\* largest magnitude of the numerator of a *big.Rat handed to NewFromRat
MaxNum == 7
\* largest denominator of those
MaxDen == 6
\* largest precision handed to NewFromRat
MaxPrecision == 2
\* the small values a limb of a uint64 argument takes
MaxSmallLimb == 1
\* longest text enumerated exhaustively as Scan input
MaxScanLen == 3
\* largest magnitude of a receiver constructed before Scan
MaxRecv == 2
\* largest scale of such a receiver
MaxRecvScale == 1
\* largest magnitude of a Decimal handed to rescale
MaxRescaled == 25
\* largest |scale| of such a Decimal, and largest |targetScale|
MaxTarget == 2
\* the longest run of padding zeros String() is asked to write
MaxPadding == 600

\* init() precalculates the powers 0..38
LastPrecalc == 38

----------------------------------------------------------------------------
(* Characters and text helpers (Go string indexing and slicing).           *)

DigitChars == <<"0", "1", "2", "3", "4", "5", "6", "7", "8", "9">>

IsDigit(c) == \E i \in 1..10 : DigitChars[i] = c

DigitVal(c) == (CHOOSE i \in 1..10 : DigitChars[i] = c) - 1

\* s[from:] on a Go string, from counted from 0
Drop(s, from) == SubSeq(s, from + 1, Len(s))

\* s[:to] on a Go string
Take(s, to) == SubSeq(s, 1, to)

\* strings.Repeat(c, n)
Repeat(c, n) == [i \in 1..n |-> c]

\* number of occurrences of character c in s
Count(s, c) == Cardinality({i \in 1..Len(s) : s[i] = c})

\* index (from 1) of the first position of s holding a character of cs, 0 if none
FirstOf(s, cs) ==
    IF \E i \in 1..Len(s) : s[i] \in cs
    THEN CHOOSE i \in 1..Len(s) : s[i] \in cs /\ \A j \in 1..(i - 1) : s[j] \notin cs
    ELSE 0

----------------------------------------------------------------------------
(* math/big as the package uses it.                                        *)

RECURSIVE ParseNat(_)
\* value of a string of decimal digits, most significant first
ParseNat(s) ==
    IF s = <<>> THEN 0
    ELSE ParseNat(Take(s, Len(s) - 1)) * 10 + DigitVal(s[Len(s)])

\* (*big.Int).SetString(s, 10): an optional sign, then one or more digits,
\* and nothing else
SetString(s) ==
    LET signed == s # <<>> /\ s[1] \in {"+", "-"}
        body   == IF signed THEN Tail(s) ELSE s
        ok     == body # <<>> /\ \A i \in 1..Len(body) : IsDigit(body[i])
    IN  [ok  |-> ok,
         val |-> IF ~ok THEN 0
                 ELSE IF s[1] = "-" THEN 0 - ParseNat(body) ELSE ParseNat(body)]

RECURSIVE NatString(_)
\* decimal digits of a natural number, without leading zeros
NatString(n) ==
    IF n < 10 THEN <<DigitChars[n + 1]>>
    ELSE NatString(n \div 10) \o <<DigitChars[(n % 10) + 1]>>

\* (*big.Int).String()
BigIntString(n) == IF n < 0 THEN <<"-">> \o NatString(0 - n) ELSE NatString(n)

\* new(big.Int).Set(v).Mul(.., pow10(e)).String(): the decimal text of
\* v * 10^e, written without forming the product as a machine integer
MulPow10String(v, e) ==
    IF v = 0 THEN <<"0">> ELSE BigIntString(v) \o Repeat("0", e)

\* Integers wider than the ones used elsewhere in this model (an int64, a
\* uint64, an exponent of many digits) are held as limbs of 16 bits, most
\* significant first.
LimbBase == 65536

\* limbs of a 64-bit integer
LimbCount == 4

\* v + 1 modulo 2^64: a limb is incremented when every limb below it is full
Inc(v) ==
    [i \in 1..LimbCount |->
        IF \A j \in (i + 1)..LimbCount : v[j] = LimbBase - 1
        THEN (v[i] + 1) % LimbBase
        ELSE v[i]]

\* 2^64 - v modulo 2^64: the two's complement of v
Negate(v) == Inc([i \in 1..LimbCount |-> LimbBase - 1 - v[i]])

\* a *big.Int: its sign and the limbs of its magnitude
Big(neg, mag) == [neg |-> neg, mag |-> mag]

RECURSIVE MulAdd10(_, _)
\* m * 10 + c on a magnitude held as limbs, most significant first, with no
\* leading zero limb (zero is the empty sequence)
MulAdd10(m, c) ==
    IF m = <<>> THEN (IF c = 0 THEN <<>> ELSE <<c>>)
    ELSE LET t == m[Len(m)] * 10 + c
         IN  MulAdd10(Take(m, Len(m) - 1), t \div LimbBase) \o <<t % LimbBase>>

RECURSIVE NatLimbs(_)
\* magnitude of a string of decimal digits of any length
NatLimbs(s) ==
    IF s = <<>> THEN <<>>
    ELSE MulAdd10(NatLimbs(Take(s, Len(s) - 1)), DigitVal(s[Len(s)]))

\* (*big.Int).SetString(s, 10) with the value kept at full width: an optional
\* sign, then one or more digits, and nothing else; zero is never negative
SetStringLimbs(s) ==
    LET signed == s # <<>> /\ s[1] \in {"+", "-"}
        body   == IF signed THEN Tail(s) ELSE s
        ok     == body # <<>> /\ \A i \in 1..Len(body) : IsDigit(body[i])
        mag    == IF ok THEN NatLimbs(body) ELSE <<>>
    IN  [ok  |-> ok,
         val |-> Big(ok /\ s[1] = "-" /\ mag # <<>>, mag)]

\* (*big.Int).IsInt64(): the magnitude is below 2^63, or the value is -2^63
IsInt64(x) ==
    \/ Len(x.mag) < LimbCount
    \/ Len(x.mag) = LimbCount /\ x.mag[1] < LimbBase \div 2
    \/ x.neg /\ x.mag = [i \in 1..LimbCount |-> IF i = 1 THEN LimbBase \div 2 ELSE 0]

\* the low 64 bits of a magnitude
Low64(mag) ==
    [i \in 1..LimbCount |->
        LET k == Len(mag) - LimbCount + i IN IF k >= 1 THEN mag[k] ELSE 0]

\* (*big.Int).Int64(): the low 64 bits of the magnitude, negated for a
\* negative value, as a two's complement int64
Int64(x) == IF x.neg THEN Negate(Low64(x.mag)) ELSE Low64(x.mag)

\* a Go int or int32 value v as a two's complement int64 (sign extension)
Int64Of(v) ==
    [i \in 1..LimbCount |->
        IF i = LimbCount THEN v % LimbBase
        ELSE IF i = LimbCount - 1 THEN (v \div LimbBase) % LimbBase
        ELSE IF v < 0 THEN LimbBase - 1 ELSE 0]

\* the int32 whose 32 bits are the limbs hi and lo
Signed32(hi, lo) ==
    IF hi >= LimbBase \div 2 THEN (hi - LimbBase) * LimbBase + lo
    ELSE hi * LimbBase + lo

\* x - y on int32, modulo 2^32
Sub32(x, y) ==
    LET xlo == x % LimbBase
        ylo == y % LimbBase
        xhi == (x \div LimbBase) % LimbBase
        yhi == (y \div LimbBase) % LimbBase
        borrow == IF xlo < ylo THEN 1 ELSE 0
    IN  Signed32((xhi - yhi - borrow) % LimbBase, (xlo - ylo) % LimbBase)

\* x + y on int32, modulo 2^32
Add32(x, y) ==
    LET lo == (x % LimbBase) + (y % LimbBase)
        hi == ((x \div LimbBase) % LimbBase) + ((y \div LimbBase) % LimbBase)
                 + lo \div LimbBase
    IN  Signed32(hi % LimbBase, lo % LimbBase)

----------------------------------------------------------------------------
(* The Decimal value.                                                      *)

\* Decimal{}: nil unscaledValue, scale 0
ZeroValue == [nil |-> TRUE, unscaled |-> 0, scale |-> 0]

Decimal(u, s) == [nil |-> FALSE, unscaled |-> u, scale |-> s]

\* New(val, scale)
New(val, scale) == Decimal(val, scale)

\* int32(x) of an int64 x: the low 32 bits of x, read as a signed value
Int32(x) == Signed32(x[LimbCount - 1], x[LimbCount])

\* a failure that hands back a built Decimal next to the error
FailureBuilt == [err |-> TRUE, d |-> Decimal(0, 0)]

\* return Decimal{}, fmt.Errorf(...)
Failure == [err |-> TRUE, d |-> ZeroValue]

\* the exponent added to the mantissa scale instead of subtracted
FinalScalePlus(mantissaScale, exponent) == Add32(mantissaScale, Int32(exponent))

\* finalScale := mantissaScale - int32(exponent)
FinalScale(mantissaScale, exponent) == Sub32(mantissaScale, Int32(exponent))

\* NewFromString(val): the error flag and the Decimal returned
NewFromString(val) ==
    IF val = <<>> THEN Failure
    ELSE
    LET isNegative == val[1] = "-"
        v          == IF val[1] \in {"-", "+"} THEN Tail(val) ELSE val
        eIndex     == FirstOf(v, {"e", "E"})
        mantissaStr == IF eIndex # 0 THEN Take(v, eIndex - 1) ELSE v
        exponentStr == IF eIndex # 0 THEN Drop(v, eIndex) ELSE <<>>
        expBigInt  == SetStringLimbs(exponentStr)
        exponent   == IF eIndex # 0 THEN Int64(expBigInt.val) ELSE Int64Of(0)
        nparts     == Count(mantissaStr, ".") + 1
        dot        == FirstOf(mantissaStr, {"."})
        integerPart    == IF nparts = 1 THEN mantissaStr ELSE Take(mantissaStr, dot - 1)
        fractionalPart == IF nparts = 1 THEN <<>> ELSE Drop(mantissaStr, dot)
        unscaledStr    == integerPart \o fractionalPart
        mantissaScale  == Int32(Int64Of(Len(fractionalPart)))
        unscaledValue  == SetString(unscaledStr)
        finalScale     == FinalScale(mantissaScale, exponent)
    IN  IF eIndex # 0 /\ exponentStr = <<>> THEN Failure
        ELSE IF eIndex # 0 /\ ~expBigInt.ok THEN Failure
        ELSE IF eIndex # 0 /\ ~IsInt64(expBigInt.val) THEN Failure
        ELSE IF nparts > 2 THEN Failure
        ELSE IF nparts = 2 /\ \E i \in 1..Len(fractionalPart) : ~IsDigit(fractionalPart[i])
             THEN Failure
        ELSE IF ~unscaledValue.ok THEN Failure
        ELSE [err |-> FALSE,
              d   |-> Decimal(IF isNegative THEN 0 - unscaledValue.val
                              ELSE unscaledValue.val,
                              finalScale)]

Panic == [panic |-> TRUE, text |-> <<>>]

Text(t) == [panic |-> FALSE, text |-> t]

\* Decimal.String(): the text returned, or the run-time panic of a slice
\* expression whose bound is negative
String(d) ==
    IF d.nil THEN Text(<<"<", "n", "i", "l", ">">>)
    ELSE
    LET numStr == BigIntString(d.unscaled)
        scale  == d.scale
        cut    == Len(numStr) - scale
        integerPart    == Take(numStr, cut)
        fractionalPart == Drop(numStr, cut)
    IN  IF scale = 0 THEN Text(numStr)
        ELSE IF scale < 0 THEN Text(MulPow10String(d.unscaled, 0 - scale))
        ELSE IF cut < 0 THEN Panic
        ELSE Text((IF integerPart = <<>> THEN <<"0">> ELSE integerPart)
                  \o <<".">>
                  \o (IF Len(fractionalPart) < scale
                      THEN fractionalPart \o Repeat("0", scale - Len(fractionalPart))
                      ELSE fractionalPart))

----------------------------------------------------------------------------
(* Arithmetic on Decimals whose unscaledValue is a pointer into the heap.  *)

\* a Decimal struct: the address of its *big.Int and its scale
Ref(ptr, scale) == [ptr |-> ptr, scale |-> scale]

\* the number a Decimal struct holds on heap h
ValueOf(h, d) == [unscaled |-> h[d.ptr], scale |-> d.scale]

RECURSIVE Exp10(_)
\* new(big.Int).Exp(big.NewInt(10), big.NewInt(n), nil); 1 for n <= 0
Exp10(n) == IF n <= 0 THEN 1 ELSE 10 * Exp10(n - 1)

\* rescale that hands back a fresh copy at the receiver's own scale whatever
\* the target
rescaleKeepsScale(h, d, targetScale) ==
    [heap |-> Append(h, h[d.ptr]), d |-> Ref(Len(h) + 1, d.scale)]

\* d.rescale(targetScale): the heap after the call and the Decimal returned
rescale(h, d, targetScale) ==
    IF d.scale = targetScale THEN [heap |-> h, d |-> d]
    ELSE
    LET newUnscaled ==
            IF d.scale > targetScale
            THEN h[d.ptr] \div Exp10(d.scale - targetScale)
            ELSE h[d.ptr] * Exp10(targetScale - d.scale)
    IN  [heap |-> Append(h, newUnscaled), d |-> Ref(Len(h) + 1, targetScale)]

\* d.Add(other) of operations.go
Add(h, d, other) ==
    LET finalScale == IF other.scale > d.scale THEN other.scale ELSE d.scale
        r1 == rescale(h, d, finalScale)
        r2 == rescale(r1.heap, other, finalScale)
        d1 == r1.d
        d2 == r2.d
    IN  [heap |-> Append(r2.heap, r2.heap[d1.ptr] + r2.heap[d2.ptr]),
         d    |-> Ref(Len(r2.heap) + 1, finalScale)]

\* a difference taken the wrong way round
SubReversed(h, d, other) ==
    LET finalScale == IF other.scale > d.scale THEN other.scale ELSE d.scale
        r1 == rescale(h, d, finalScale)
        r2 == rescale(r1.heap, other, finalScale)
    IN  [heap |-> Append(r2.heap, r2.heap[r2.d.ptr] - r2.heap[r1.d.ptr]),
         d    |-> Ref(Len(r2.heap) + 1, finalScale)]

\* d.Sub(other)
Sub(h, d, other) ==
    LET finalScale == IF other.scale > d.scale THEN other.scale ELSE d.scale
        r1 == rescale(h, d, finalScale)
        r2 == rescale(r1.heap, other, finalScale)
        d1 == r1.d
        d2 == r2.d
    IN  [heap |-> Append(r2.heap, r2.heap[d1.ptr] - r2.heap[d2.ptr]),
         d    |-> Ref(Len(r2.heap) + 1, finalScale)]

\* the draft d.Add(other): d1 and d2 are struct copies that share the
\* operands' *big.Int, and Mul writes through them
AddDraft(h, d, other) ==
    LET finalScale == IF other.scale > d.scale THEN other.scale ELSE d.scale
        h1 == IF d.scale < finalScale
              THEN [h EXCEPT ![d.ptr] = @ * Exp10(finalScale - d.scale)]
              ELSE h
        h2 == IF other.scale < finalScale
              THEN [h1 EXCEPT ![other.ptr] = @ * Exp10(finalScale - other.scale)]
              ELSE h1
    IN  [heap |-> Append(h2, h2[d.ptr] + h2[other.ptr]),
         d    |-> Ref(Len(h2) + 1, finalScale)]

\* a product that aligns the operands first and keeps the larger scale
MulAligned(h, d, other) ==
    LET finalScale == IF other.scale > d.scale THEN other.scale ELSE d.scale
    IN  [heap |-> Append(h, h[d.ptr] * h[other.ptr]),
         d    |-> Ref(Len(h) + 1, finalScale)]

\* d.Mul(other) (Multiply in the tests): the magnitudes multiplied, the scales added
Mul(h, d, other) ==
    [heap |-> Append(h, h[d.ptr] * h[other.ptr]),
     d    |-> Ref(Len(h) + 1, d.scale + other.scale)]

----------------------------------------------------------------------------
(* The arithmetic session: two operands, then calls on them.               *)

Num(u, s) == [unscaled |-> u, scale |-> s]

Grid == { Num(u, s) : u \in (0 - MaxOperand)..MaxOperand,
                      s \in (0 - MaxOperandScale)..MaxOperandScale }

\* operand pairs of TestOperations_Add, _Sub and _Multiply
TestPairs ==
    { <<Num(1234, 2), Num(567, 1)>>,
      <<Num(567, 1), Num(1234, 2)>>,
      <<Num(0 - 123, 1), Num(456, 2)>>,
      <<Num(999, 3), Num(1, 1)>>,
      <<Num(1250, 2), Num(125, 1)>>,
      <<Num(0 - 125, 2), Num(0 - 5, 1)>>,
      <<Num(1234, 3), Num(0, 1)>> }

OperandPairs == (Grid \X Grid) \cup TestPairs

NoRef == Ref(0, 0)

NoCall == [op |-> "none", x |-> Num(0, 0), y |-> Num(0, 0), r |-> Num(0, 0),
           rev |-> Num(0, 0)]

ArithIdle ==
    /\ heap = <<>>
    /\ a = NoRef
    /\ b = NoRef
    /\ made = <<>>
    /\ call = NoCall
    /\ calls = 0

\* a := New(..); b := New(..)
MakeOperands ==
    /\ made = <<>>
    /\ \E p \in OperandPairs :
          /\ heap' = <<p[1].unscaled, p[2].unscaled>>
          /\ a' = Ref(1, p[1].scale)
          /\ b' = Ref(2, p[2].scale)
          /\ made' = p
    /\ UNCHANGED <<call, calls>>
    /\ UNCHANGED <<textVars, cacheVars, convVars>>

\* a := New(..); b := a  (both structs hold the same *big.Int)
MakeShared ==
    /\ made = <<>>
    /\ \E x \in Grid :
          /\ heap' = <<x.unscaled>>
          /\ a' = Ref(1, x.scale)
          /\ b' = Ref(1, x.scale)
          /\ made' = <<x, x>>
    /\ UNCHANGED <<call, calls>>
    /\ UNCHANGED <<textVars, cacheVars, convVars>>

\* the bookkeeping of one call x.op(y) whose outcome is res; rev is the outcome
\* y.op(x) would have had on the same heap
Record(op, x, y, res, rev) ==
    /\ heap' = res.heap
    /\ call' = [op |-> op, x |-> ValueOf(heap, x), y |-> ValueOf(heap, y),
                r |-> ValueOf(res.heap, res.d),
                rev |-> ValueOf(rev.heap, rev.d)]
    /\ calls' = calls + 1
    /\ UNCHANGED <<a, b, made>>
    /\ UNCHANGED <<textVars, cacheVars, convVars>>

Ready ==
    /\ made # <<>>
    /\ calls < MaxCalls
    /\ \A i \in 1..Len(heap) : heap[i] <= MaxMagnitude /\ 0 - heap[i] <= MaxMagnitude

CallAdd ==
    /\ Ready
    /\ \E x \in {a, b}, y \in {a, b} : 
          Record("Add", x, y, Add(heap, x, y), Add(heap, y, x))

CallSub ==
    /\ Ready
    /\ \E x \in {a, b}, y \in {a, b} : 
          Record("Sub", x, y, Sub(heap, x, y), Sub(heap, y, x))

CallMul ==
    /\ Ready
    /\ \E x \in {a, b}, y \in {a, b} : 
          Record("Mul", x, y, Mul(heap, x, y), Mul(heap, y, x))

CallAddDraft ==
    /\ Ready
    /\ \E x \in {a, b}, y \in {a, b} : 
          Record("AddDraft", x, y, AddDraft(heap, x, y), AddDraft(heap, y, x))

ArithNext ==
    MakeOperands \/ MakeShared \/ CallAdd \/ CallSub \/ CallMul \/ CallAddDraft

----------------------------------------------------------------------------
(* The power-of-ten cache.  Its integers are far beyond a machine word     *)
(* (10^38 and up), so a cached *big.Int is held as its decimal digits,     *)
(* most significant first.                                                 *)

\* z.Mul(z, 10) on decimal digits
TimesTen(z) == Append(z, 0)

RECURSIVE BigExp10(_)
\* new(big.Int).Exp(big.NewInt(10), big.NewInt(int64(n)), nil); 1 for n <= 0
BigExp10(n) == IF n <= 0 THEN <<1>> ELSE TimesTen(BigExp10(n - 1))

\* a power computed one multiplication short
ExpShort(n) == BigExp10(n - 1)

\* p := new(big.Int).Exp(big.NewInt(10), big.NewInt(int64(n)), nil)
Exp(n) == BigExp10(n)

Main == 0

\* the value of `writer` when no goroutine is inside Lock()..Unlock()
NoWriter == 0 - 1

Workers == 1..NProcs

Goroutines == {Main} \cup Workers

CacheIdle ==
    /\ powersOfTen = <<>>
    /\ bigs = <<>>
    /\ readers = {}
    /\ writer = NoWriter
    /\ exclusive = FALSE
    /\ pc = [g \in Goroutines |-> "idle"]
    /\ arg = [g \in Goroutines |-> 0]
    /\ loc = [g \in Goroutines |-> 0]
    /\ ret = [g \in Goroutines |-> 0]
    /\ started = 0
    /\ initI = 0
    /\ used = [g \in Goroutines |-> <<>>]

InitOver == initI > LastPrecalc

\* for i := int32(0); i <= 38; i++ { pow10(i) }: the next call of the loop
InitCall ==
    /\ ~InitOver
    /\ pc[Main] = "idle"
    /\ pc' = [pc EXCEPT ![Main] = "entry"]
    /\ arg' = [arg EXCEPT ![Main] = initI]
    /\ UNCHANGED <<powersOfTen, bigs, readers, writer, exclusive, loc, ret, started, initI, used>>
    /\ UNCHANGED <<textVars, arithVars, convVars>>

\* the loop's pow10(i) has returned: i++
InitStep ==
    /\ ~InitOver
    /\ pc[Main] = "returned"
    /\ pc' = [pc EXCEPT ![Main] = "idle"]
    /\ initI' = initI + 1
    /\ UNCHANGED <<powersOfTen, bigs, readers, writer, exclusive, arg, loc, ret, started, used>>
    /\ UNCHANGED <<textVars, arithVars, convVars>>

\* exponents the goroutines ask for: a negative one, a precalculated one, new ones
Exponents == {0 - 1, LastPrecalc} \cup ((LastPrecalc + 1)..(LastPrecalc + MaxExtra))

\* a goroutine calls pow10(n), init() being over
Call(g) ==
    /\ g \in Workers
    /\ InitOver
    /\ pc[g] \in {"idle", "returned", "panicked", "stringMul", "ratMul"}
    /\ started < MaxPowCalls
    /\ \E n \in Exponents : arg' = [arg EXCEPT ![g] = n]
    /\ pc' = [pc EXCEPT ![g] = "entry"]
    /\ ret' = [ret EXCEPT ![g] = 0]
    /\ started' = started + 1
    /\ used' = [used EXCEPT ![g] = <<>>]
    /\ UNCHANGED <<powersOfTen, bigs, readers, writer, exclusive, loc, initI>>
    /\ UNCHANGED <<textVars, arithVars, convVars>>

\* if n < 0 { panic(...) }
Entry(g) ==
    /\ pc[g] = "entry"
    /\ pc' = [pc EXCEPT ![g] = IF arg[g] < 0 THEN "panicked" ELSE "rlock"]
    /\ UNCHANGED <<powersOfTen, bigs, readers, writer, exclusive, arg, loc, ret, started, initI, used>>
    /\ UNCHANGED <<textVars, arithVars, convVars>>

\* an RLock that does not wait for the writer
RLockBarging(g) ==
    /\ pc[g] = "rlock"
    /\ readers' = readers \cup {g}
    /\ pc' = [pc EXCEPT ![g] = "lookup"]
    /\ UNCHANGED <<powersOfTen, bigs, writer, exclusive, arg, loc, ret, started, initI, used>>
    /\ UNCHANGED <<textVars, arithVars, convVars>>

\* powersOfTenMutex.RLock(): blocks while a writer holds or awaits the mutex
RLock(g) ==
    /\ pc[g] = "rlock"
    /\ writer = NoWriter
    /\ readers' = readers \cup {g}
    /\ pc' = [pc EXCEPT ![g] = "lookup"]
    /\ UNCHANGED <<powersOfTen, bigs, writer, exclusive, arg, loc, ret, started, initI, used>>
    /\ UNCHANGED <<textVars, arithVars, convVars>>

\* if p, ok := powersOfTen[n]; ok
Lookup(g) ==
    /\ pc[g] = "lookup"
    /\ IF arg[g] \in DOMAIN powersOfTen
       THEN /\ loc' = [loc EXCEPT ![g] = powersOfTen[arg[g]]]
            /\ pc' = [pc EXCEPT ![g] = "hit"]
       ELSE /\ loc' = loc
            /\ pc' = [pc EXCEPT ![g] = "miss"]
    /\ UNCHANGED <<powersOfTen, bigs, readers, writer, exclusive, arg, ret, started, initI, used>>
    /\ UNCHANGED <<textVars, arithVars, convVars>>

\* powersOfTenMutex.RUnlock(); return p
HitReturn(g) ==
    /\ pc[g] = "hit"
    /\ readers' = readers \ {g}
    /\ ret' = [ret EXCEPT ![g] = loc[g]]
    /\ loc' = [loc EXCEPT ![g] = 0]
    /\ pc' = [pc EXCEPT ![g] = "returned"]
    /\ UNCHANGED <<powersOfTen, bigs, writer, exclusive, arg, started, initI, used>>
    /\ UNCHANGED <<textVars, arithVars, convVars>>

\* a miss path that goes for the write lock with the read lock still held
MissKeepsRLock(g) ==
    /\ pc[g] = "miss"
    /\ pc' = [pc EXCEPT ![g] = "lock"]
    /\ UNCHANGED <<powersOfTen, bigs, readers, writer, exclusive, arg, loc, ret, started, initI, used>>
    /\ UNCHANGED <<textVars, arithVars, convVars>>

\* powersOfTenMutex.RUnlock() on the miss path
MissRUnlock(g) ==
    /\ pc[g] = "miss"
    /\ readers' = readers \ {g}
    /\ pc' = [pc EXCEPT ![g] = "lock"]
    /\ UNCHANGED <<powersOfTen, bigs, writer, exclusive, arg, loc, ret, started, initI, used>>
    /\ UNCHANGED <<textVars, arithVars, convVars>>

\* powersOfTenMutex.Lock(), first half: one writer at a time announces itself,
\* which keeps new readers out
LockAnnounce(g) ==
    /\ pc[g] = "lock"
    /\ writer = NoWriter
    /\ writer' = g
    /\ pc' = [pc EXCEPT ![g] = "drain"]
    /\ UNCHANGED <<powersOfTen, bigs, readers, exclusive, arg, loc, ret, started, initI, used>>
    /\ UNCHANGED <<textVars, arithVars, convVars>>

\* powersOfTenMutex.Lock(), second half: returns once the readers have left
LockAcquire(g) ==
    /\ pc[g] = "drain"
    /\ writer = g
    /\ readers = {}
    /\ exclusive' = TRUE
    /\ pc' = [pc EXCEPT ![g] = "recheck"]
    /\ UNCHANGED <<powersOfTen, bigs, readers, writer, arg, loc, ret, started, initI, used>>
    /\ UNCHANGED <<textVars, arithVars, convVars>>

\* pow10 without its double check: the write lock is taken and the power computed
RecheckSkipped(g) ==
    /\ pc[g] = "recheck"
    /\ pc' = [pc EXCEPT ![g] = "compute"]
    /\ UNCHANGED <<powersOfTen, bigs, readers, writer, exclusive, arg, loc, ret, started, initI, used>>
    /\ UNCHANGED <<textVars, arithVars, convVars>>

\* the double check: if p, ok := powersOfTen[n]; ok { return p }
Recheck(g) ==
    /\ pc[g] = "recheck"
    /\ IF arg[g] \in DOMAIN powersOfTen
       THEN /\ loc' = [loc EXCEPT ![g] = powersOfTen[arg[g]]]
            /\ pc' = [pc EXCEPT ![g] = "unlock"]
       ELSE /\ loc' = loc
            /\ pc' = [pc EXCEPT ![g] = "compute"]
    /\ UNCHANGED <<powersOfTen, bigs, readers, writer, exclusive, arg, ret, started, initI, used>>
    /\ UNCHANGED <<textVars, arithVars, convVars>>

\* p := new(big.Int).Exp(...)
Compute(g) ==
    /\ pc[g] = "compute"
    /\ bigs' = Append(bigs, Exp(arg[g]))
    /\ loc' = [loc EXCEPT ![g] = Len(bigs) + 1]
    /\ pc' = [pc EXCEPT ![g] = "store"]
    /\ UNCHANGED <<powersOfTen, readers, writer, exclusive, arg, ret, started, initI, used>>
    /\ UNCHANGED <<textVars, arithVars, convVars>>

\* powersOfTen[n] = p
Store(g) ==
    /\ pc[g] = "store"
    /\ powersOfTen' = [k \in DOMAIN powersOfTen \cup {arg[g]} |->
                          IF k = arg[g] THEN loc[g] ELSE powersOfTen[k]]
    /\ pc' = [pc EXCEPT ![g] = "unlock"]
    /\ UNCHANGED <<bigs, readers, writer, exclusive, arg, loc, ret, started, initI, used>>
    /\ UNCHANGED <<textVars, arithVars, convVars>>

\* return p, through the deferred powersOfTenMutex.Unlock()
UnlockReturn(g) ==
    /\ pc[g] = "unlock"
    /\ writer' = NoWriter
    /\ exclusive' = FALSE
    /\ ret' = [ret EXCEPT ![g] = loc[g]]
    /\ loc' = [loc EXCEPT ![g] = 0]
    /\ pc' = [pc EXCEPT ![g] = "returned"]
    /\ UNCHANGED <<powersOfTen, bigs, readers, arg, started, initI, used>>
    /\ UNCHANGED <<textVars, arithVars, convVars>>

\* one step of pow10 in goroutine g
pow10(g) ==
    \/ Entry(g) \/ RLock(g) \/ Lookup(g) \/ HitReturn(g) \/ MissRUnlock(g)
    \/ LockAnnounce(g) \/ LockAcquire(g) \/ Recheck(g) \/ Compute(g)
    \/ Store(g) \/ UnlockReturn(g)

RECURSIVE NatDigits(_)
\* the decimal digits of a natural number, most significant first
NatDigits(n) == IF n < 10 THEN <<n>> ELSE Append(NatDigits(n \div 10), n % 10)

RECURSIVE MulDigits(_, _, _)
\* the digits of n * z + carry * 10^Len(z), by long multiplication from the
\* least significant digit of z
MulDigits(n, z, carry) ==
    IF z = <<>> THEN (IF carry = 0 THEN <<>> ELSE NatDigits(carry))
    ELSE LET t == n * z[Len(z)] + carry
         IN  Append(MulDigits(n, Take(z, Len(z) - 1), t \div 10), t % 10)

\* the value x.Mul(x, p) computes, for a positive x held in a machine word
BigMul(n, z) == MulDigits(n, z, 0)

\* a Mul whose receiver is the cached multiplier itself
MulIntoMultiplier(h, p, product) == [h EXCEPT ![p] = product]

\* z.Mul(x, p) with a receiver z allocated by the caller: the product goes to
\* z and the object at address p is only read
MulIntoFresh(h, p, product) == h

\* String() at a negative scale, after multiplier := pow10(exponent) has
\* returned: tempInt := new(big.Int).Set(d.unscaledValue); tempInt.Mul(tempInt, multiplier)
StringMul(g) ==
    /\ g \in Workers
    /\ pc[g] = "returned"
    /\ \E n \in 1..MaxFactor :
          LET product == BigMul(n, bigs[ret[g]])
          IN  /\ used' = [used EXCEPT ![g] = product]
              /\ bigs' = MulIntoFresh(bigs, ret[g], product)
    /\ pc' = [pc EXCEPT ![g] = "stringMul"]
    /\ UNCHANGED <<powersOfTen, readers, writer, exclusive, arg, loc, ret, started, initI>>
    /\ UNCHANGED <<textVars, arithVars, convVars>>

\* NewFromRat, after pow10(precision) has returned:
\* tempNum := new(big.Int).Mul(num, pow10(precision))
RatMul(g) ==
    /\ g \in Workers
    /\ pc[g] = "returned"
    /\ \E n \in 1..MaxFactor :
          LET product == BigMul(n, bigs[ret[g]])
          IN  /\ used' = [used EXCEPT ![g] = product]
              /\ bigs' = MulIntoFresh(bigs, ret[g], product)
    /\ pc' = [pc EXCEPT ![g] = "ratMul"]
    /\ UNCHANGED <<powersOfTen, readers, writer, exclusive, arg, loc, ret, started, initI>>
    /\ UNCHANGED <<textVars, arithVars, convVars>>

\* init() and the goroutines' pow10 calls alone
PowNext ==
    \/ InitCall
    \/ InitStep
    \/ \E g \in Workers : Call(g)
    \/ \E g \in Goroutines : pow10(g)

CacheNext ==
    \/ InitCall
    \/ InitStep
    \/ \E g \in Workers : Call(g)
    \/ \E g \in Goroutines : pow10(g)
    \/ \E g \in Workers : StringMul(g)
    \/ \E g \in Workers : RatMul(g)

----------------------------------------------------------------------------
(* The text session: construct a Decimal, then render it.                  *)

Alphabet == {"0", "4", "5", "-", "+", ".", "e", "x"}

\* inputs of the package's own tests and documentation that are longer than MaxLen
Literals ==
    { <<"1", "2", "3", ".", "4", "5", "0">>,
      <<"1", ".", "2", "3", "e", "+", "5">>,
      <<"-", "4", ".", "5", "E", "-", "2">>,
      <<"1", "2", "3", ".", "4", "5", ".", "6", "7">>,
      <<"1", "2", "3", ".", "4", "x", "5">>,
      <<"0", "0", "0", "1", "2", "3", ".", "4", "5">>,
      <<"-", "1", "2", "3", ".", "4", "5">>,
      <<"1", ".", "2", "3", "e", "-", "1", "0", "0">>,
      <<"-", "0", ".", "0", "4", "5">> }

\* inputs whose exponent lies at the edges of int32 and of int64
WideLiterals ==
    { <<"1", "e", "-", "2", "1", "4", "7", "4", "8", "3", "6", "4", "7">>,
      <<"1", "e", "2", "1", "4", "7", "4", "8", "3", "6", "4", "8">>,
      <<"1", ".", "5", "e", "-", "2", "1", "4", "7", "4", "8", "3", "6", "4", "8">>,
      <<"1", "e", "4", "2", "9", "4", "9", "6", "7", "2", "9", "6">>,
      <<"1", "e", "4", "2", "9", "4", "9", "6", "7", "2", "9", "7">>,
      <<"1", "e", "9", "2", "2", "3", "3", "7", "2", "0", "3", "6", "8", "5",
              "4", "7", "7", "5", "8", "0", "7">>,
      <<"1", "e", "-", "9", "2", "2", "3", "3", "7", "2", "0", "3", "6", "8", "5",
              "4", "7", "7", "5", "8", "0", "8">>,
      <<"1", "e", "9", "2", "2", "3", "3", "7", "2", "0", "3", "6", "8", "5",
              "4", "7", "7", "5", "8", "0", "8">> }

Inputs == (UNION {[1..n -> Alphabet] : n \in 0..MaxLen}) \cup Literals \cup WideLiterals

NoOutput == [panic |-> FALSE, text |-> <<>>]

TextIdle ==
    /\ input = <<>>
    /\ dec = ZeroValue
    /\ err = FALSE
    /\ out = NoOutput
    /\ step = "idle"

CallNewFromString ==
    /\ step = "idle"
    /\ \E s \in Inputs :
          LET r == NewFromString(s)
          IN  /\ input' = s
              /\ dec' = r.d
              /\ err' = r.err
    /\ step' = "parsed"
    /\ UNCHANGED out
    /\ UNCHANGED <<arithVars, cacheVars, convVars>>

CallNew ==
    /\ step = "idle"
    /\ \E val \in (0 - MaxVal)..MaxVal, scale \in (0 - MaxScale)..MaxScale :
          dec' = New(val, scale)
    /\ err' = FALSE
    /\ step' = "made"
    /\ UNCHANGED <<input, out>>
    /\ UNCHANGED <<arithVars, cacheVars, convVars>>

\* String() is called on the Decimals whose scale it can pad within MaxPadding
\* characters
CallString ==
    /\ step \in {"parsed", "made"}
    /\ dec.scale >= 0 - MaxPadding
    /\ dec.scale <= MaxPadding
    /\ out' = String(dec)
    /\ step' = IF step = "parsed" THEN "printedParsed" ELSE "printedMade"
    /\ UNCHANGED <<input, dec, err>>
    /\ UNCHANGED <<arithVars, cacheVars, convVars>>

TextNext == CallNewFromString \/ CallNew \/ CallString

----------------------------------------------------------------------------
(* The rounding policy and the rational converter.                         *)

RoundDown == 0

RoundUp == 1

RoundCeiling == 2

RoundFloor == 3

RoundHalfUp == 4

RoundHalfDown == 5

RoundHalfEven == 6

RoundUnnecessary == 7

\* the eight defined modes
Modes == RoundDown..RoundUnnecessary

\* RoundingMode(999), a value outside the enumeration
UnknownMode == 999

\* x.Sign()
Sign(x) == IF x < 0 THEN 0 - 1 ELSE IF x = 0 THEN 0 ELSE 1

\* new(big.Int).Abs(x)
Abs(x) == IF x < 0 THEN 0 - x ELSE x

\* x.Cmp(y)
Cmp(x, y) == IF x < y THEN 0 - 1 ELSE IF x = y THEN 0 ELSE 1

\* new(big.Int).Rsh(x, 1)
Rsh1(x) == x \div 2

\* x.Bit(0): the lowest bit of the two's complement of x
Bit0(x) == x % 2

\* the quotient of QuoRem: division truncated toward zero
Quo(x, y) ==
    LET q == Abs(x) \div Abs(y)
    IN  IF Sign(x) * Sign(y) < 0 THEN 0 - q ELSE q

\* the remainder of QuoRem: x - y * Quo(x, y), with the sign of x
Rem(x, y) == x - y * Quo(x, y)

\* new(big.Int).Mod(x, y): the Euclidean modulus, never negative
Mod(x, y) == x % Abs(y)

\* a decision function that rounds every inexact quotient away from zero
shouldRoundUpAlways(rm, isNegative, rem, denom) == rem # 0

\* rm.shouldRoundUp(isNegative, rem, denom) of rounding.go
shouldRoundUp(rm, isNegative, rem, denom) ==
    LET remAbs         == Abs(rem)
        denomAbs       == Abs(denom)
        halfDenom      == Rsh1(denomAbs)
        compareHalf    == Cmp(remAbs, halfDenom)
        isExactlyHalf  == compareHalf = 0
        isMoreThanHalf == compareHalf > 0
    IN  IF Sign(rem) = 0 THEN FALSE
        ELSE IF rm = RoundDown THEN FALSE
        ELSE IF rm = RoundUp THEN TRUE
        ELSE IF rm = RoundCeiling THEN ~isNegative
        ELSE IF rm = RoundFloor THEN isNegative
        ELSE IF rm = RoundHalfUp THEN isExactlyHalf \/ isMoreThanHalf
        ELSE IF rm = RoundHalfDown THEN isMoreThanHalf
        ELSE IF rm = RoundHalfEven
             THEN IF isMoreThanHalf THEN TRUE
                  ELSE IF isExactlyHalf THEN Bit0(remAbs) = 1
                  ELSE FALSE
        ELSE FALSE

\* what a call of a decision function produced: a decision, or a panic
Decided(up) == [panic |-> FALSE, up |-> up]

Panicked == [panic |-> TRUE, up |-> FALSE]

\* rm.shouldRoundUp(rem, denom) of part_002
shouldRoundUpDraft(rm, rem, denom) ==
    LET remAbs      == Abs(rem)
        denomAbs    == Abs(denom)
        half        == Rsh1(denomAbs)
        compareHalf == Cmp(remAbs, half)
    IN  IF Sign(rem) = 0 THEN Decided(FALSE)
        ELSE IF rm = RoundDown THEN Decided(FALSE)
        ELSE IF rm = RoundUp THEN Decided(TRUE)
        ELSE IF rm = RoundCeiling THEN Decided(Sign(rem) > 0)
        ELSE IF rm = RoundFloor THEN Decided(Sign(rem) < 0)
        ELSE IF rm = RoundHalfUp THEN Decided(compareHalf >= 0)
        ELSE IF rm = RoundHalfDown THEN Decided(compareHalf > 0)
        ELSE IF rm = RoundHalfEven
             THEN IF compareHalf > 0 THEN Decided(TRUE)
                  ELSE IF compareHalf < 0 THEN Decided(FALSE)
                  ELSE Decided(Bit0(rem) = 1)
        ELSE IF rm = RoundUnnecessary
             THEN IF Sign(rem) # 0 THEN Panicked ELSE Decided(FALSE)
        ELSE Panicked

\* a *big.Rat: nil, or a fraction in lowest terms with a positive denominator
NilRat == [nil |-> TRUE, num |-> 0, den |-> 1]

Rat(n, d) == [nil |-> FALSE, num |-> n, den |-> d]

\* return Decimal{...}, nil
Success(d) == [err |-> FALSE, d |-> d]

\* a zero that forgets the requested precision
RatZeroScaleless(precision) == Decimal(0, 0)

\* Decimal{unscaledValue: big.NewInt(0), scale: precision}
RatZero(precision) == Decimal(0, precision)

\* NewFromRat(val, precision, roundingMode): the error flag and the Decimal
\* returned.  pow10(precision) is read as 10^precision: the precisions used here
\* are at most LastPrecalc, whose powers init() has stored before any call.
NewFromRat(val, precision, roundingMode) ==
    IF val.nil THEN Failure
    ELSE IF precision < 0 THEN Failure
    ELSE IF val.num = 0 THEN Success(RatZero(precision))
    ELSE IF val.den = 1 /\ precision = 0 THEN Success(Decimal(val.num, 0))
    ELSE
    LET num          == val.num
        den          == val.den
        tempNum      == num * Exp10(precision)
        quotient     == Quo(tempNum, den)
        remainder    == Rem(tempNum, den)
        absRemainder == Abs(remainder)
        halfDivisor  == Rsh1(den)
        cmpResult    == Cmp(absRemainder, halfDivisor)
        isHalfway    == cmpResult = 0 /\ absRemainder * 2 = den
        quotientSign == Sign(quotient)
        lastDigitOfQuotient == Mod(quotient, 2)
        shouldIncrement ==
            IF roundingMode = RoundUp THEN TRUE
            ELSE IF roundingMode = RoundDown THEN FALSE
            ELSE IF roundingMode = RoundCeiling THEN quotientSign >= 0
            ELSE IF roundingMode = RoundFloor THEN quotientSign < 0
            ELSE IF roundingMode = RoundHalfUp
                 THEN cmpResult = 1 \/ (cmpResult = 0 /\ isHalfway)
            ELSE IF roundingMode = RoundHalfDown THEN cmpResult = 1
            ELSE IF cmpResult = 1 THEN TRUE
            ELSE IF cmpResult = 0 /\ isHalfway THEN lastDigitOfQuotient = 1
            ELSE FALSE
        rounded ==
            IF shouldIncrement
            THEN IF quotientSign >= 0 THEN quotient + 1 ELSE quotient - 1
            ELSE quotient
    IN  IF remainder = 0 THEN Success(Decimal(quotient, precision))
        ELSE IF roundingMode = RoundUnnecessary THEN Failure
        ELSE IF roundingMode \notin RoundDown..RoundHalfEven THEN Failure
        ELSE Success(Decimal(rounded, precision))

RECURSIVE Gcd(_, _)
\* the greatest common divisor, by which big.Rat reduces every fraction
Gcd(m, n) == IF n = 0 THEN m ELSE Gcd(n, m % n)

\* the values a *big.Rat argument takes
Rats ==
    {NilRat} \cup
    {Rat(n, d) : <<n, d>> \in {x \in ((0 - MaxNum)..MaxNum) \X (1..MaxDen) :
                                Gcd(Abs(x[1]), x[2]) = 1}}

\* no call made yet
NoRound == [fn |-> "none"]

RoundIdle == rcall = NoRound

\* a truncating division whose remainder is handed to shouldRoundUp of rounding.go
CallShouldRoundUp ==
    /\ rcall = NoRound
    /\ \E rm \in Modes \cup {UnknownMode}, isNegative \in BOOLEAN,
          v \in (0 - MaxDividend)..MaxDividend, d \in 1..MaxDivisor :
          rcall' = [fn |-> "shouldRoundUp", rm |-> rm, isNegative |-> isNegative,
                    quo |-> Quo(v, d), rem |-> Rem(v, d), denom |-> d,
                    res |-> Decided(shouldRoundUp(rm, isNegative, Rem(v, d), d))]
    /\ UNCHANGED <<ucall, recv, scan, rs>>
    /\ UNCHANGED <<textVars, arithVars, cacheVars>>

\* the same division handed to shouldRoundUp of part_002
CallShouldRoundUpDraft ==
    /\ rcall = NoRound
    /\ \E rm \in Modes \cup {UnknownMode},
          v \in (0 - MaxDividend)..MaxDividend, d \in 1..MaxDivisor :
          rcall' = [fn |-> "shouldRoundUpDraft", rm |-> rm, isNegative |-> v < 0,
                    quo |-> Quo(v, d), rem |-> Rem(v, d), denom |-> d,
                    res |-> shouldRoundUpDraft(rm, Rem(v, d), d)]
    /\ UNCHANGED <<ucall, recv, scan, rs>>
    /\ UNCHANGED <<textVars, arithVars, cacheVars>>

CallNewFromRat ==
    /\ rcall = NoRound
    /\ \E val \in Rats, precision \in (0 - 1)..MaxPrecision,
          rm \in Modes \cup {UnknownMode} :
          rcall' = [fn |-> "NewFromRat", val |-> val, precision |-> precision,
                    rm |-> rm, res |-> NewFromRat(val, precision, rm)]
    /\ UNCHANGED <<ucall, recv, scan, rs>>
    /\ UNCHANGED <<textVars, arithVars, cacheVars>>

RoundNext == CallShouldRoundUp \/ CallShouldRoundUpDraft \/ CallNewFromRat

----------------------------------------------------------------------------
(* The uint64 constructors.  A uint64 is far beyond the integers used      *)
(* elsewhere in this model, so it is held as four 16-bit limbs, most       *)
(* significant first, and a *big.Int built from it as a sign and limbs.    *)

\* the values a limb takes: small ones and the ones around the sign bit and the top
LimbValues ==
    (0..MaxSmallLimb) \cup {LimbBase \div 2 - 1, LimbBase \div 2, LimbBase - 1}

Uint64s == [1..LimbCount -> LimbValues]

\* big.NewInt(int64(val)): the bits of val read as a two's complement int64
NewIntOfInt64(val) ==
    IF val[1] >= LimbBase \div 2 THEN Big(TRUE, Negate(val)) ELSE Big(FALSE, val)

\* new(big.Int).SetUint64(val)
SetUint64(val) == Big(FALSE, val)

\* NewFromUint64(val) of part_000
NewFromUint64(val) == [unscaled |-> SetUint64(val), scale |-> 0]

\* NewUint64(val) of decimal.go
NewUint64(val) == [unscaled |-> NewIntOfInt64(val), scale |-> 0]

\* no call made yet
NoUint == [fn |-> "none"]

UintIdle == ucall = NoUint

CallNewFromUint64 ==
    /\ ucall = NoUint
    /\ \E val \in Uint64s :
          ucall' = [fn |-> "NewFromUint64", val |-> val, d |-> NewFromUint64(val)]
    /\ UNCHANGED <<rcall, recv, scan, rs>>
    /\ UNCHANGED <<textVars, arithVars, cacheVars>>

CallNewUint64 ==
    /\ ucall = NoUint
    /\ \E val \in Uint64s :
          ucall' = [fn |-> "NewUint64", val |-> val, d |-> NewUint64(val)]
    /\ UNCHANGED <<rcall, recv, scan, rs>>
    /\ UNCHANGED <<textVars, arithVars, cacheVars>>

UintNext == CallNewFromUint64 \/ CallNewUint64

----------------------------------------------------------------------------
(* Scan, the sql.Scanner adapter.                                          *)

\* NewFromBytes(val)
NewFromBytes(val) == IF Len(val) = 0 THEN Failure ELSE NewFromString(val)

\* the dynamic type of the value handed to Scan, and its text if it has one
Value(kind, text) == [kind |-> kind, text |-> text]

\* a failed Scan that clears the receiver
RejectedCleared(d) == [err |-> TRUE, d |-> ZeroValue]

\* return fmt.Errorf(...) before the receiver is assigned
Rejected(d) == [err |-> TRUE, d |-> d]

\* d.Scan(value): the error flag and the receiver after the call
Scan(d, value) ==
    IF value.kind = "nil" THEN [err |-> FALSE, d |-> Decimal(0, 0)]
    ELSE IF value.kind \notin {"string", "bytes"} THEN Rejected(d)
    ELSE
    LET parsed == IF value.kind = "string" THEN NewFromString(value.text)
                  ELSE NewFromBytes(value.text)
    IN  IF parsed.err THEN Rejected(d) ELSE [err |-> FALSE, d |-> parsed.d]

\* texts handed to Scan
ScanTexts == (UNION {[1..n -> Alphabet] : n \in 0..MaxScanLen}) \cup Literals

\* values handed to Scan: NULL, a string, a []byte, an int64
Values ==
    {Value("nil", <<>>), Value("int64", <<>>)}
    \cup {Value(k, t) : k \in {"string", "bytes"}, t \in ScanTexts}

NoScan == [value |-> Value("none", <<>>), before |-> ZeroValue, err |-> FALSE]

\* var d Decimal
ScanIdle ==
    /\ recv = ZeroValue
    /\ scan = NoScan

\* d := New(val, scale), the receiver of the next Scan
MakeReceiver ==
    /\ scan = NoScan
    /\ recv = ZeroValue
    /\ \E val \in (0 - MaxRecv)..MaxRecv, scale \in 0..MaxRecvScale :
          recv' = New(val, scale)
    /\ UNCHANGED <<rcall, ucall, scan, rs>>
    /\ UNCHANGED <<textVars, arithVars, cacheVars>>

\* err := d.Scan(value)
CallScan ==
    /\ scan = NoScan
    /\ \E value \in Values :
          LET r == Scan(recv, value)
          IN  /\ recv' = r.d
              /\ scan' = [value |-> value, before |-> recv, err |-> r.err]
    /\ UNCHANGED <<rcall, ucall, rs>>
    /\ UNCHANGED <<textVars, arithVars, cacheVars>>

ScanNext == MakeReceiver \/ CallScan

----------------------------------------------------------------------------
(* The rescale session: d1 := a.rescale(s1); d12 := d1.rescale(s2);        *)
(* d2 := a.rescale(s2), on a heap of its own.                              *)

\* no Decimal yet
RescaleIdle ==
    rs = [stage |-> "idle", heap |-> <<>>, a |-> NoRef, s1 |-> 0, d1 |-> NoRef,
          s2 |-> 0, d12 |-> NoRef, d2 |-> NoRef]

\* a := New(val, scale)
MakeRescaled ==
    /\ rs.stage = "idle"
    /\ \E val \in (0 - MaxRescaled)..MaxRescaled, scale \in (0 - MaxTarget)..MaxTarget :
          rs' = [rs EXCEPT !.stage = "made", !.heap = <<val>>, !.a = Ref(1, scale)]
    /\ UNCHANGED <<rcall, ucall, recv, scan>>
    /\ UNCHANGED <<textVars, arithVars, cacheVars>>

\* d1 := a.rescale(s1)
RescaleFirst ==
    /\ rs.stage = "made"
    /\ \E s1 \in (0 - MaxTarget)..MaxTarget :
          LET r == rescale(rs.heap, rs.a, s1)
          IN  rs' = [rs EXCEPT !.stage = "once", !.heap = r.heap, !.s1 = s1, !.d1 = r.d]
    /\ UNCHANGED <<rcall, ucall, recv, scan>>
    /\ UNCHANGED <<textVars, arithVars, cacheVars>>

\* d12 := d1.rescale(s2)
RescaleAgain ==
    /\ rs.stage = "once"
    /\ \E s2 \in (0 - MaxTarget)..MaxTarget :
          LET r == rescale(rs.heap, rs.d1, s2)
          IN  rs' = [rs EXCEPT !.stage = "twice", !.heap = r.heap, !.s2 = s2, !.d12 = r.d]
    /\ UNCHANGED <<rcall, ucall, recv, scan>>
    /\ UNCHANGED <<textVars, arithVars, cacheVars>>

\* d2 := a.rescale(s2)
RescaleDirect ==
    /\ rs.stage = "twice"
    /\ LET r == rescale(rs.heap, rs.a, rs.s2)
       IN  rs' = [rs EXCEPT !.stage = "direct", !.heap = r.heap, !.d2 = r.d]
    /\ UNCHANGED <<rcall, ucall, recv, scan>>
    /\ UNCHANGED <<textVars, arithVars, cacheVars>>

RescaleNext == MakeRescaled \/ RescaleFirst \/ RescaleAgain \/ RescaleDirect

----------------------------------------------------------------------------
(* Specifications: one session at a time, the others left idle.            *)

\* nothing constructed, nothing called
Init ==
    TextIdle /\ ArithIdle /\ CacheIdle /\ RoundIdle /\ UintIdle /\ ScanIdle /\ RescaleIdle

\* the text session: every bounded input parsed or constructed, then rendered
SpecText == Init /\ [][TextNext]_vars

\* the arithmetic session
SpecArith == Init /\ [][ArithNext]_vars

\* package initialisation followed by concurrent pow10 calls
SpecCache == Init /\ [][CacheNext]_vars

\* init() and concurrent pow10 calls under a fair scheduler: init() runs to its
\* end, and a goroutine whose next step of pow10 stays possible (it is runnable,
\* or the mutex it waits for stays free) eventually takes it.  Callers are not
\* obliged to call.
CacheFairness ==
    /\ WF_vars(InitCall)
    /\ WF_vars(InitStep)
    /\ \A g \in Goroutines : WF_vars(pow10(g))

SpecCacheFair == Init /\ [][PowNext]_vars /\ CacheFairness

\* calls of the rounding decision functions and of NewFromRat
SpecRound == Init /\ [][RoundNext]_vars

\* calls of the uint64 constructors
SpecUint == Init /\ [][UintNext]_vars

\* a receiver is declared or constructed, then scanned into
SpecScan == Init /\ [][ScanNext]_vars

\* a Decimal is rescaled, the result rescaled again, and the Decimal rescaled
\* directly to the second scale
SpecRescale == Init /\ [][RescaleNext]_vars

----------------------------------------------------------------------------
(* Canonical decimal text, read independently of the parser.               *)

AllDigits(s) == \A i \in 1..Len(s) : IsDigit(s[i])

Unsigned(s) == IF s # <<>> /\ s[1] \in {"+", "-"} THEN Tail(s) ELSE s

IntText(s) ==
    LET u == Unsigned(s) dot == FirstOf(u, {"."})
    IN  IF dot = 0 THEN u ELSE Take(u, dot - 1)

FracText(s) ==
    LET u == Unsigned(s) dot == FirstOf(u, {"."})
    IN  IF dot = 0 THEN <<>> ELSE Drop(u, dot)

\* [sign] digits ['.' digits]
IsCanonical(s) ==
    /\ IntText(s) # <<>>
    /\ AllDigits(IntText(s))
    /\ AllDigits(FracText(s))
    /\ (FirstOf(Unsigned(s), {"."}) # 0 => FracText(s) # <<>>)

RECURSIVE StripLeadingZeros(_)
StripLeadingZeros(s) ==
    IF s # <<>> /\ s[1] = "0" THEN StripLeadingZeros(Tail(s)) ELSE s

RECURSIVE StripTrailingZeros(_)
StripTrailingZeros(s) ==
    IF s # <<>> /\ s[Len(s)] = "0" THEN StripTrailingZeros(Take(s, Len(s) - 1)) ELSE s

\* the number a canonical text denotes: sign, integer digits without leading
\* zeros, fractional digits without trailing zeros
NumberOf(s) ==
    LET ip == StripLeadingZeros(IntText(s))
        fp == StripTrailingZeros(FracText(s))
    IN  [neg |-> s[1] = "-" /\ (ip \o fp) # <<>>, int |-> ip, frac |-> fp]

Printed == step \in {"printedParsed", "printedMade"}

\* C1 (as claimed): every canonical text parses, and String() of the result is
\* a canonical text denoting the same number as the input.
C1_RoundTrip ==
    (step = "printedParsed" /\ IsCanonical(input))
        => /\ ~err
           /\ ~out.panic
           /\ IsCanonical(out.text)
           /\ NumberOf(out.text) = NumberOf(input)

\* C4 (as claimed): a negative unscaled value at a positive scale renders as one
\* leading '-', at least one integer digit, a '.', and exactly `scale` digits.
C4_SignOnce ==
    (Printed /\ ~dec.nil /\ dec.unscaled < 0 /\ dec.scale > 0)
        => /\ ~out.panic
           /\ Len(out.text) >= dec.scale + 3
           /\ out.text[1] = "-"
           /\ out.text[Len(out.text) - dec.scale] = "."
           /\ \A i \in 2..Len(out.text) :
                 i # Len(out.text) - dec.scale => IsDigit(out.text[i])

\* C5 (as claimed): at a positive scale String() always returns, and a magnitude
\* with fewer digits than the scale renders with integer part "0" and exactly
\* `scale` fractional digits.
C5_ShortMagnitude ==
    (Printed /\ ~dec.nil /\ dec.scale > 0)
        => /\ ~out.panic
           /\ (Len(NatString(IF dec.unscaled < 0 THEN 0 - dec.unscaled ELSE dec.unscaled))
                  < dec.scale
               => /\ IntText(out.text) = <<"0">>
                  /\ Len(FracText(out.text)) = dec.scale
                  /\ AllDigits(FracText(out.text)))

----------------------------------------------------------------------------
(* What a parsed text denotes, read from the text itself.                  *)

\* the part of the text before its exponent marker, and the part after it
MantissaOf(s) ==
    LET e == FirstOf(s, {"e", "E"}) IN IF e = 0 THEN s ELSE Take(s, e - 1)

ExponentOf(s) ==
    LET e == FirstOf(s, {"e", "E"}) IN IF e = 0 THEN <<>> ELSE Drop(s, e)

HasExponent(s) == FirstOf(s, {"e", "E"}) # 0

\* the integer formed by the digits of t in order, negated once per '-'
SignedDigits(t) ==
    LET n == ParseNat(SelectSeq(t, IsDigit))
    IN  IF Count(t, "-") % 2 = 1 THEN 0 - n ELSE n

\* number of digits after the decimal point of the mantissa
FractionDigits(s) ==
    LET m == MantissaOf(s) dot == FirstOf(m, {"."})
    IN  IF dot = 0 THEN 0 ELSE Len(SelectSeq(Drop(m, dot), IsDigit))

\* the integer formed by the digits of t in order, negated once per '-', at
\* full width
WideSignedDigits(t) ==
    LET mag == NatLimbs(SelectSeq(t, IsDigit))
    IN  Big(Count(t, "-") % 2 = 1 /\ mag # <<>>, mag)

\* the largest int32
MaxInt32 == Signed32(LimbBase \div 2 - 1, LimbBase - 1)

\* the exponent text s writes is an int32, and so is (number of fractional
\* digits) - (exponent)
ScaleFits(s) ==
    LET e  == WideSignedDigits(ExponentOf(s))
        ev == Int32(Int64(e))
    IN  /\ IsInt64(e)
        /\ Int64(e) = Int64Of(ev)
        /\ ev >= FractionDigits(s) - MaxInt32

Parsed == step \in {"parsed", "printedParsed"}

Str12345 == <<"1", "2", "3", ".", "4", "5", "0">>

Str123e5 == <<"1", ".", "2", "3", "e", "+", "5">>

Str45Em2 == <<"-", "4", ".", "5", "E", "-", "2">>

\* C2: an accepted text whose exponent and scale fit in int32 yields the signed
\* integer spelled by the mantissa's integer digits followed by its fractional
\* digits, at scale (number of fractional digits) - (exponent); trailing
\* fractional zeros stay in the scale.
C2_ParseResult ==
    (Parsed /\ ~err /\ ScaleFits(input))
        => /\ ~dec.nil
           /\ dec.unscaled = SignedDigits(MantissaOf(input))
           /\ dec.scale = FractionDigits(input) - SignedDigits(ExponentOf(input))
           /\ (input = Str12345 => dec = Decimal(123450, 3))
           /\ (input = Str123e5 => dec = Decimal(123, 0 - 3))
           /\ (input = Str45Em2 => dec = Decimal(0 - 45, 3))

\* C2 witness: "-4.5E-2" has been parsed into -45 at scale 3
C2_Witness ==
    step = "parsed" /\ ~err /\ input = Str45Em2 /\ dec = Decimal(0 - 45, 3)

ValidInteger(t) == Unsigned(t) # <<>> /\ AllDigits(Unsigned(t))

\* the malformed inputs the parser is documented to reject
Malformed(s) ==
    LET m    == MantissaOf(Unsigned(s))
        x    == ExponentOf(Unsigned(s))
        dot  == FirstOf(m, {"."})
    IN  \/ s = <<>>
        \/ s \in {<<"+">>, <<"-">>}
        \/ s = <<".">>
        \/ Count(m, ".") > 1
        \/ (dot # 0 /\ ~AllDigits(Drop(m, dot)))
        \/ (HasExponent(Unsigned(s)) /\ SelectSeq(x, IsDigit) = <<>>)
        \/ (HasExponent(Unsigned(s)) /\ ~ValidInteger(x))
        \/ (Count(m, ".") <= 1 /\ ~ValidInteger(SelectSeq(m, LAMBDA c : c # ".")))

\* C3: every malformed input is rejected, and every rejection returns the
\* zero-value Decimal (nil magnitude, scale 0), never a partly built one.
C3_RejectsMalformed ==
    Parsed => /\ (Malformed(input) => err)
              /\ (err => dec = ZeroValue)

\* C3 witness: a text with two decimal points has been rejected
C3_Witness ==
    /\ step = "parsed"
    /\ input = <<"4", ".", "5", ".">>
    /\ err
    /\ dec = ZeroValue

----------------------------------------------------------------------------
(* Arithmetic claims.                                                      *)

Larger(m, n) == IF m > n THEN m ELSE n

C8_MulExact ==
    call.op = "Mul"
        => /\ call.r.unscaled = call.x.unscaled * call.y.unscaled
           /\ call.r.scale = call.x.scale + call.y.scale

\* C8 witness: -1.25 * -0.5 has been computed as 625 at scale 3
C8_Witness ==
    /\ call.op = "Mul"
    /\ call.x = Num(0 - 125, 2)
    /\ call.y = Num(0 - 5, 1)
    /\ call.r = Num(625, 3)

\* C9 (as claimed): after an Add or a Sub, of either source file, both operands
\* still hold the unscaled value and the scale they were constructed with.
C9_OperandsUnchanged ==
    call.op \in {"Add", "AddDraft", "Sub"}
        => /\ ValueOf(heap, a) = made[1]
           /\ ValueOf(heap, b) = made[2]

----------------------------------------------------------------------------
(* Cache claims.                                                           *)

\* z is the decimal numeral of 10^k: a one followed by k zeros
IsTenTo(z, k) ==
    /\ Len(z) = k + 1
    /\ z[1] = 1
    /\ \A i \in 2..Len(z) : z[i] = 0

\* C10: every key of the cache is non-negative and bound to exactly 10^key,
\* the keys 0..38 are all present once init() is over, and a pow10(n) call
\* that returns, from a hit or from a miss, returns 10^n.
C10_CacheHoldsPowers ==
    /\ \A k \in DOMAIN powersOfTen :
          /\ k >= 0
          /\ powersOfTen[k] \in 1..Len(bigs)
          /\ IsTenTo(bigs[powersOfTen[k]], k)
    /\ (InitOver => \A k \in 0..LastPrecalc : k \in DOMAIN powersOfTen)
    /\ \A g \in Goroutines :
          pc[g] = "returned"
              => /\ arg[g] >= 0
                 /\ ret[g] \in 1..Len(bigs)
                 /\ IsTenTo(bigs[ret[g]], arg[g])

\* C10 witness: init() is over, one goroutine has returned from pow10(39), which
\* was not cached, and another from pow10(38), which was
C10_Witness ==
    /\ InitOver
    /\ pc[1] = "returned" /\ arg[1] = LastPrecalc + 1
    /\ pc[2] = "returned" /\ arg[2] = LastPrecalc
    /\ IsTenTo(bigs[ret[1]], LastPrecalc + 1)
    /\ IsTenTo(bigs[ret[2]], LastPrecalc)

\* goroutines between `p := new(big.Int).Exp(...)` and `powersOfTen[n] = p`
Storing == {g \in Goroutines : pc[g] = "store"}

\* C11: whatever the interleaving, each exponent is computed at most once (every
\* object allocated is the one stored under its key, or is about to be stored
\* by the only goroutine inside the write lock), and every pow10(n) call that
\* has returned holds the address stored under n.
C11_CacheIdentity ==
    /\ Cardinality(Storing) <= 1
    /\ Len(bigs) = Cardinality(DOMAIN powersOfTen) + Cardinality(Storing)
    /\ \A i, j \in 1..Len(bigs) : bigs[i] = bigs[j] => i = j
    /\ \A g \in Goroutines :
          pc[g] = "returned"
              => /\ arg[g] \in DOMAIN powersOfTen
                 /\ ret[g] = powersOfTen[arg[g]]
    /\ \A g, h \in Goroutines :
          (pc[g] = "returned" /\ pc[h] = "returned" /\ arg[g] = arg[h])
              => ret[g] = ret[h]

\* C11 witness: two goroutines asked for the uncached 10^39 at the same time.
\* The first computed it, stored it and has returned it; the second, which had
\* missed it under the read lock, holds the write lock, has found the entry in
\* the double check and is returning the same object.  Nothing was computed twice.
C11_Witness ==
    /\ pc[1] = "returned" /\ arg[1] = LastPrecalc + 1
    /\ pc[2] = "unlock" /\ arg[2] = LastPrecalc + 1
    /\ exclusive /\ writer = 2
    /\ loc[2] = ret[1]
    /\ ret[1] = powersOfTen[LastPrecalc + 1]
    /\ Len(bigs) = LastPrecalc + 2

----------------------------------------------------------------------------
(* Rounding claims.                                                        *)

\* a call of either decision function has been made
Decision == rcall.fn \in {"shouldRoundUp", "shouldRoundUpDraft"}

\* the remainder handed over is exactly half the divisor
IsTie == 2 * Abs(rcall.rem) = rcall.denom

C13_Directional ==
    Decision
        => /\ rcall.rem = 0 => rcall.res = Decided(FALSE)
           /\ (rcall.rem # 0 /\ rcall.rm = RoundDown) => rcall.res = Decided(FALSE)
           /\ (rcall.rem # 0 /\ rcall.rm = RoundUp) => rcall.res = Decided(TRUE)
           /\ (rcall.rem # 0 /\ rcall.rm = RoundCeiling)
                 => rcall.res = Decided(~rcall.isNegative)
           /\ (rcall.rem # 0 /\ rcall.rm = RoundFloor)
                 => rcall.res = Decided(rcall.isNegative)

\* C13 witness: RoundFloor.shouldRoundUp(true, 3, 10) of rounding.go has
\* returned true
C13_Witness ==
    /\ rcall.fn = "shouldRoundUp"
    /\ rcall.rm = RoundFloor
    /\ rcall.isNegative
    /\ rcall.rem = 3
    /\ rcall.denom = 10
    /\ rcall.res = Decided(TRUE)

\* C14 (as claimed): RoundUnnecessary with a non-zero remainder never yields an
\* ordinary decision: the call signals an error.
C14_UnnecessarySignals ==
    (Decision /\ rcall.rm = RoundUnnecessary /\ rcall.rem # 0)
        => rcall.res.panic

----------------------------------------------------------------------------
(* Rational conversion claims.                                             *)

\* NewFromRat was called and returned a Decimal
Converted == rcall.fn = "NewFromRat" /\ ~rcall.res.err

\* the numerator shifted by the precision: the exact result is Shifted / den
Shifted == rcall.val.num * Exp10(rcall.precision)

\* C15 (as claimed): the result is the truncated quotient, or that quotient
\* moved by one in the direction of the sign of the rational; it never has the
\* sign opposite to the rational's, and it is less than one unit of the last
\* place away from the exact value.
C15_IncrementBySign ==
    Converted
        => /\ rcall.res.d.unscaled \in
                 {Quo(Shifted, rcall.val.den),
                  Quo(Shifted, rcall.val.den) + Sign(rcall.val.num)}
           /\ Sign(rcall.res.d.unscaled) * Sign(rcall.val.num) >= 0
           /\ Abs(rcall.res.d.unscaled * rcall.val.den - Shifted) < rcall.val.den

\* C16 (as claimed): with RoundCeiling the result is the smallest integer u with
\* u / 10^precision >= num / den, and with RoundFloor the largest with
\* u / 10^precision <= num / den, for rationals of either sign.
C16_CeilingFloor ==
    /\ (Converted /\ rcall.rm = RoundCeiling)
          => /\ rcall.res.d.scale = rcall.precision
             /\ rcall.res.d.unscaled * rcall.val.den >= Shifted
             /\ (rcall.res.d.unscaled - 1) * rcall.val.den < Shifted
    /\ (Converted /\ rcall.rm = RoundFloor)
          => /\ rcall.res.d.scale = rcall.precision
             /\ rcall.res.d.unscaled * rcall.val.den <= Shifted
             /\ (rcall.res.d.unscaled + 1) * rcall.val.den > Shifted

\* C17: under each of the eight defined modes NewFromRat returns an error
\* exactly when the rational is nil, the precision is negative, or the mode is
\* RoundUnnecessary and num * 10^precision is not a multiple of den; an error
\* comes with the zero-value Decimal, a success with a Decimal at the
\* requested precision.
C17_RatErrors ==
    (rcall.fn = "NewFromRat" /\ rcall.rm \in Modes)
        => /\ rcall.res.err
                 <=> \/ rcall.val.nil
                     \/ rcall.precision < 0
                     \/ /\ rcall.rm = RoundUnnecessary
                        /\ Shifted % rcall.val.den # 0
           /\ rcall.res.err => rcall.res.d = ZeroValue
           /\ ~rcall.res.err
                 => /\ ~rcall.res.d.nil
                    /\ rcall.res.d.scale = rcall.precision

\* C17 witness: NewFromRat(1/3, 2, RoundUnnecessary) has returned an error and
\* the zero-value Decimal
C17_Witness ==
    /\ rcall.fn = "NewFromRat"
    /\ rcall.val = Rat(1, 3)
    /\ rcall.precision = 2
    /\ rcall.rm = RoundUnnecessary
    /\ rcall.res.err
    /\ rcall.res.d = ZeroValue

\* C18 (as claimed): a mode outside the eight defined ones is refused for every
\* non-nil rational and non-negative precision.
C18_UnknownModeRefused ==
    (rcall.fn = "NewFromRat" /\ rcall.rm \notin Modes
        /\ ~rcall.val.nil /\ rcall.precision >= 0)
        => rcall.res.err

----------------------------------------------------------------------------
(* uint64 constructor claim.                                               *)

\* C19 (as claimed): whichever uint64 constructor is called, for every v up to
\* 2^64 - 1 the Decimal returned holds exactly v, not negative and not wrapped,
\* at scale 0.
C19_Uint64Exact ==
    ucall.fn \in {"NewFromUint64", "NewUint64"}
        => /\ ~ucall.d.unscaled.neg
           /\ ucall.d.unscaled.mag = ucall.val
           /\ ucall.d.scale = 0

----------------------------------------------------------------------------
(* Scan claim.                                                             *)

\* C20: Scan of NULL leaves the receiver at unscaled 0, scale 0; Scan of a
\* string or a []byte that the parser accepts leaves it at the parser's result;
\* Scan of a text the parser refuses, or of a value of any other type, returns
\* an error and leaves the receiver as it was before the call.
C20_Scan ==
    scan.value.kind # "none"
        => /\ scan.value.kind = "nil"
                 => ~scan.err /\ recv = Decimal(0, 0)
           /\ (scan.value.kind \in {"string", "bytes"}
                  /\ ~NewFromString(scan.value.text).err)
                 => ~scan.err /\ recv = NewFromString(scan.value.text).d
           /\ (scan.value.kind \in {"string", "bytes"}
                  /\ NewFromString(scan.value.text).err)
                 => scan.err /\ recv = scan.before
           /\ scan.value.kind \notin {"nil", "string", "bytes"}
                 => scan.err /\ recv = scan.before

\* C20 witness: the receiver was New(2, 1); Scan("4.x") has failed and the
\* receiver still holds unscaled 2 at scale 1
C20_Witness ==
    /\ scan.value = Value("string", <<"4", ".", "x">>)
    /\ scan.before = Decimal(2, 1)
    /\ scan.err
    /\ recv = Decimal(2, 1)

----------------------------------------------------------------------------
(* Rescale claims.                                                         *)

\* the three rescale calls have been made
Rescaled == rs.stage = "direct"

Min(m, n) == IF m <= n THEN m ELSE n

C26_TruncatesTowardZero ==
    (rs.stage # "idle" /\ rs.stage # "made" /\ rs.s1 < rs.a.scale)
        => /\ rs.d1.scale = rs.s1
           /\ rs.heap[rs.d1.ptr]
                 = Quo(rs.heap[rs.a.ptr], Exp10(rs.a.scale - rs.s1))
           /\ Abs(rs.heap[rs.d1.ptr]) * Exp10(rs.a.scale - rs.s1)
                 <= Abs(rs.heap[rs.a.ptr])

----------------------------------------------------------------------------
(* Half-way comparison claim.                                              *)

\* C22 (as claimed): for a non-zero remainder RoundHalfUp rounds up exactly
\* when 2 * |remainder| >= |divisor| and RoundHalfDown exactly when
\* 2 * |remainder| > |divisor|, for odd divisors as for even ones.
C22_ExactHalf ==
    (Decision /\ rcall.rem # 0)
        => /\ rcall.rm = RoundHalfUp
                 => rcall.res = Decided(2 * Abs(rcall.rem) >= Abs(rcall.denom))
           /\ rcall.rm = RoundHalfDown
                 => rcall.res = Decided(2 * Abs(rcall.rem) > Abs(rcall.denom))

----------------------------------------------------------------------------
(* Cache discipline claims.                                                *)

\* C23: the cache is append-only.  Across every step, of pow10 in any
\* goroutine and of the callers that multiply by a returned power (String at
\* a negative scale, NewFromRat), each key already present stays present,
\* bound to the same object, and that object keeps its value.
C23_AppendOnly ==
    [][\A k \in DOMAIN powersOfTen :
          /\ k \in DOMAIN powersOfTen'
          /\ powersOfTen'[k] = powersOfTen[k]
          /\ bigs'[powersOfTen[k]] = bigs[powersOfTen[k]]]_vars

\* C23 witness: 10^39 was inserted after init(); String has multiplied an
\* unscaled 2 by it and NewFromRat a numerator 1 by the cached 10^38, and both
\* cached integers are still those powers
C23_Witness ==
    /\ pc[1] = "stringMul" /\ arg[1] = LastPrecalc + 1
    /\ used[1] = <<2>> \o Tail(BigExp10(LastPrecalc + 1))
    /\ pc[2] = "ratMul" /\ arg[2] = LastPrecalc
    /\ used[2] = BigExp10(LastPrecalc)
    /\ IsTenTo(bigs[powersOfTen[LastPrecalc + 1]], LastPrecalc + 1)
    /\ IsTenTo(bigs[powersOfTen[LastPrecalc]], LastPrecalc)

\* goroutines at a statement that reads the map
Reading == {g \in Goroutines : pc[g] \in {"lookup", "recheck"}}

\* goroutines at the statement that writes the map
Writing == {g \in Goroutines : pc[g] = "store"}

\* C24: the map is read only under the read lock or the write lock and written
\* only under the write lock; the write lock is held by one goroutine while no
\* goroutine holds the read lock, so no goroutine writes the map while another
\* reads or writes it.
C24_LockDiscipline ==
    /\ \A g \in Goroutines :
          /\ pc[g] \in {"lookup", "hit", "miss"} <=> g \in readers
          /\ pc[g] \in {"recheck", "compute", "store", "unlock"}
                <=> (exclusive /\ writer = g)
    /\ exclusive => readers = {}
    /\ \A g \in Writing : Reading \cup Writing = {g}

\* C24 witness: two goroutines read the map at the same time, both under the
\* read lock
C24_Witness ==
    /\ pc[1] = "lookup"
    /\ pc[2] = "lookup"
    /\ readers = {1, 2}
    /\ ~exclusive

\* pow10 is not running in goroutine g
Outside(g) == pc[g] \in {"idle", "returned", "panicked", "stringMul", "ratMul"}

\* C25: a goroutine outside pow10 holds neither lock, one that has asked for
\* the write lock has released the read lock, a call panics only for n < 0
\* and straight from its entry, before any lock is taken, and under fair
\* scheduling every call that was entered eventually returns or panics.
C25_Completes ==
    /\ [](\A g \in Goroutines :
             /\ Outside(g) => (g \notin readers /\ writer # g)
             /\ pc[g] \in {"lock", "drain"} => g \notin readers
             /\ pc[g] = "panicked" => arg[g] < 0
             /\ pc[g] = "returned" => arg[g] >= 0)
    /\ [][\A g \in Goroutines :
             (pc'[g] = "panicked" /\ pc[g] # "panicked") => pc[g] = "entry"]_vars
    /\ \A g \in Goroutines :
          (pc[g] = "entry") ~> (pc[g] \in {"returned", "panicked"})

\* C25 witness: pow10(39), a miss, has returned in one goroutine and pow10(-1)
\* has panicked in another; no lock is held
C25_Witness ==
    /\ pc[1] = "returned" /\ arg[1] = LastPrecalc + 1
    /\ pc[2] = "panicked" /\ arg[2] = 0 - 1
    /\ readers = {}
    /\ writer = NoWriter
    /\ ~exclusive

----------------------------------------------------------------------------
(* Scale width claim.                                                      *)

\* C27 (as claimed): whenever NewFromString returns without an error, the
\* scale of the Decimal it returns is exactly (number of fractional digits) -
\* (exponent); an exponent or a difference outside int32 gives an error, never
\* a scale wrapped modulo 2^32.
C27_ExactScaleOrError ==
    (Parsed /\ ~err)
        => /\ ScaleFits(input)
           /\ dec.scale = FractionDigits(input) - SignedDigits(ExponentOf(input))

----------------------------------------------------------------------------
(* Sign grammar claim.                                                     *)

\* the mantissa of s still begins with a sign once the single optional leading
\* sign has been removed
SecondSign(s) ==
    /\ Len(s) >= 2
    /\ s[1] \in {"+", "-"}
    /\ s[2] \in {"+", "-"}

\* C28 (as claimed): at most one sign precedes the mantissa digits; an input
\* with a second sign after the leading one ("--5", "+-5", "-+4.5") is
\* answered with an error, never with a Decimal.
C28_SingleSign ==
    (Parsed /\ SecondSign(input)) => err

====
